---- MODULE Spec2Model ----
(***************************************************************************)
(* The transcribe repository: the Streamlit pages pages/Transcribe.py      *)
(* (timestamp formatter, SRT / VTT / TSV serializers, transcribe_audio     *)
(* and the page's click handler) and pages/Extract.py (extract_audio and   *)
(* its click handler).                                                     *)
(*                                                                         *)
(* Text is modelled as a sequence of one-character strings, so that the    *)
(* serializers' outputs can be split into lines and fields again.  Times   *)
(* are whole milliseconds: the program's float `seconds` is t / 1000.      *)
(***************************************************************************)
EXTENDS Integers, Sequences, FiniteSets, TLC

VARIABLES
    pc,             \* position of the running call or click handler
    arg,            \* argument of a direct call of a formatter / serializer
    ret,            \* outcome of that call: a return value or a raised exception
    fs,             \* temporary files that exist on disk
    request,        \* what the user chose before clicking (formats, settings, upload)
    command,        \* the encoder command line built by extract_audio
    toolCalls,      \* times the external tool ran in this request
    toolFailed,     \* whether that run failed
    progress,       \* last value given to progress_bar.progress, in percent
    result,         \* what transcribe_audio / extract_audio handed back
    exc,            \* exception travelling up the stack, or NoExc
    fmtIdx,         \* position of the page's loop over output_format
    errors,         \* messages shown with st.error
    downloads       \* download buttons offered to the user

vars == <<pc, arg, ret, fs, request, command, toolCalls, toolFailed, progress,
          result, exc, fmtIdx, errors, downloads>>

-----------------------------------------------------------------------------
(* Bounds of the model.                                                    *)

MaxSegs == 2
MaxFormats == 2

-----------------------------------------------------------------------------
(* Characters and text.                                                    *)

LF == "\n"
CR == "\r"
TAB == "\t"
QUOTE == "\""

Digit(d) == <<"0", "1", "2", "3", "4", "5", "6", "7", "8", "9">>[d + 1]

RECURSIVE Dec(_)
\* str(n) of a natural number
Dec(n) == IF n < 10 THEN <<Digit(n)>> ELSE Dec(n \div 10) \o <<Digit(n % 10)>>

\* f"{n:02d}": at least two characters, the sign counted among them
Fmt02d(n) ==
    IF n < 0 THEN <<"-">> \o Dec(-n)
    ELSE IF n < 10 THEN <<"0">> \o Dec(n)
    ELSE Dec(n)

-----------------------------------------------------------------------------
(* Outcomes of a call.                                                     *)

NoExc == [kind |-> "none"]
Return(v) == [kind |-> "return", value |-> v]
Raise(e, a) == [kind |-> "raise", exc |-> e, arg |-> a]
NotCalled == [kind |-> "notcalled"]

-----------------------------------------------------------------------------
(* format_time, Transcribe.py 11-17.  t is the argument in milliseconds.   *)
(* // and % are Python's floor division and modulo (the sign of the        *)
(* divisor), which is what \div and % are here.                            *)

format_time(t) ==
    LET hours == t \div 3600000
        minutes == (t % 3600000) \div 60000
        seconds == (t % 60000) \div 1000
        \* computed from the truncated seconds, so always 0, and never used
        milliseconds == ((seconds * 1000) % 1000)
    IN  Fmt02d(hours) \o <<":">> \o Fmt02d(minutes) \o <<":">> \o Fmt02d(seconds)

-----------------------------------------------------------------------------
(* Segments: Python dicts, modelled as functions whose domain is the set   *)
(* of keys present.                                                        *)

Hello == <<"H", "e", "l", "l", "o">>
world == <<"w", "o", "r", "l", "d">>
Texts == { Hello, world, <<"a", TAB, "b">>, <<"a", LF, "b">>, <<"a", CR, "b">>,
           <<"q", QUOTE, "q">>, <<>> }

Spans == { <<0, 2500>>, <<2500, 5000>>, <<3661500, 3662000>> }

WellFormedSegments == { [start |-> s[1], end |-> s[2], text |-> x] : s \in Spans, x \in Texts }

MalformedSegments == { [end |-> 2500, text |-> Hello],
                       [start |-> 0, text |-> Hello],
                       [text |-> Hello] }

Segments == WellFormedSegments \cup MalformedSegments

SeqsUpTo(S, n) == UNION { [1..k -> S] : k \in 0..n }

SegmentLists == SeqsUpTo(Segments, MaxSegs)

-----------------------------------------------------------------------------
(* A subscript segment[key] of a dict: KeyError(key) when the key is       *)
(* absent.  FirstMissing is the first key, in the order the serializers    *)
(* read them (start, end, text), that the segment lacks.                   *)

\* faulty variant: end read before start
FirstMissing_end_first(segment) ==
    IF "end" \notin DOMAIN segment THEN "end"
    ELSE IF "start" \notin DOMAIN segment THEN "start"
    ELSE IF "text" \notin DOMAIN segment THEN "text"
    ELSE "none"

FirstMissing(segment) ==
    IF "start" \notin DOMAIN segment THEN "start"
    ELSE IF "end" \notin DOMAIN segment THEN "end"
    ELSE IF "text" \notin DOMAIN segment THEN "text"
    ELSE "none"

-----------------------------------------------------------------------------
(* create_srt_content, Transcribe.py 19-26.                                *)

ARROW == <<" ", "-", "-", ">", " ">>
SrtMillis == <<",", "0", "0", "0">>
VttMillis == <<".", "0", "0", "0">>

\* faulty variant: enumerate(segments) without its start of 1
srt_block_zero_based(i, segment) ==
    Dec(i - 1) \o <<LF>>
        \o format_time(segment.start) \o SrtMillis \o ARROW
        \o format_time(segment.end) \o SrtMillis \o <<LF>>
        \o segment.text \o <<LF, LF>>

\* f"{i}\n{start} --> {end}\n{segment['text']}\n\n"
srt_block(i, segment) ==
    Dec(i) \o <<LF>>
        \o format_time(segment.start) \o SrtMillis \o ARROW
        \o format_time(segment.end) \o SrtMillis \o <<LF>>
        \o segment.text \o <<LF, LF>>

RECURSIVE srt_loop(_, _, _)
\* the for loop of create_srt_content, from its i-th iteration on
srt_loop(segments, i, srt_content) ==
    IF i > Len(segments) THEN Return(srt_content)
    ELSE IF FirstMissing(segments[i]) # "none"
         THEN Raise("KeyError", FirstMissing(segments[i]))
         ELSE srt_loop(segments, i + 1, srt_content \o srt_block(i, segments[i]))

create_srt_content(segments) == srt_loop(segments, 1, <<>>)

-----------------------------------------------------------------------------
(* create_vtt_content, Transcribe.py 28-35.                                *)

WEBVTT == <<"W", "E", "B", "V", "T", "T">>

\* faulty variant: a cue closed by one "\n" only
vtt_block_no_blank_line(segment) ==
    format_time(segment.start) \o VttMillis \o ARROW
        \o format_time(segment.end) \o VttMillis \o <<LF>>
        \o segment.text \o <<LF>>

\* f"{start}.000 --> {end}.000\n{segment['text']}\n\n"
vtt_block(segment) ==
    format_time(segment.start) \o VttMillis \o ARROW
        \o format_time(segment.end) \o VttMillis \o <<LF>>
        \o segment.text \o <<LF, LF>>

RECURSIVE vtt_loop(_, _, _)
vtt_loop(segments, i, vtt_content) ==
    IF i > Len(segments) THEN Return(vtt_content)
    ELSE IF FirstMissing(segments[i]) # "none"
         THEN Raise("KeyError", FirstMissing(segments[i]))
         ELSE vtt_loop(segments, i + 1, vtt_content \o vtt_block(segments[i]))

create_vtt_content(segments) == vtt_loop(segments, 1, WEBVTT \o <<LF, LF>>)

-----------------------------------------------------------------------------
(* create_tsv_content, Transcribe.py 37-46: csv.writer(output,             *)
(* delimiter='\t') with the defaults of the excel dialect: quotechar '"',  *)
(* doublequote, QUOTE_MINIMAL, lineterminator '\r\n'.                      *)

Has(s, c) == \E k \in 1..Len(s) : s[k] = c

RECURSIVE DoubleQuotes(_)
DoubleQuotes(s) ==
    IF s = <<>> THEN <<>>
    ELSE (IF Head(s) = QUOTE THEN <<QUOTE, QUOTE>> ELSE <<Head(s)>>)
             \o DoubleQuotes(Tail(s))

\* QUOTE_MINIMAL: a field holding the delimiter, the quote character or a
\* character of the line terminator is wrapped in quotes, its quotes doubled
NeedsQuote(field) ==
    Has(field, TAB) \/ Has(field, QUOTE) \/ Has(field, CR) \/ Has(field, LF)

\* faulty variant: quoting=csv.QUOTE_ALL
csv_field_always_quoted(field) == <<QUOTE>> \o DoubleQuotes(field) \o <<QUOTE>>

csv_field(field) ==
    IF NeedsQuote(field) THEN <<QUOTE>> \o DoubleQuotes(field) \o <<QUOTE>>
    ELSE field

\* faulty variant: csv.writer without delimiter='\t'
writerow_comma(f1, f2, f3) ==
    csv_field(f1) \o <<",">> \o csv_field(f2) \o <<",">> \o csv_field(f3)
        \o <<CR, LF>>

\* writer.writerow of a row of three fields
writerow(f1, f2, f3) ==
    csv_field(f1) \o <<TAB>> \o csv_field(f2) \o <<TAB>> \o csv_field(f3)
        \o <<CR, LF>>

TsvHeader == << <<"S", "t", "a", "r", "t">>, <<"E", "n", "d">>, <<"T", "e", "x", "t">> >>

RECURSIVE tsv_loop(_, _, _)
tsv_loop(segments, i, output) ==
    IF i > Len(segments) THEN Return(output)
    ELSE IF FirstMissing(segments[i]) # "none"
         THEN Raise("KeyError", FirstMissing(segments[i]))
         ELSE tsv_loop(segments, i + 1,
                       output \o writerow(format_time(segments[i].start),
                                          format_time(segments[i].end),
                                          segments[i].text))

create_tsv_content(segments) ==
    tsv_loop(segments, 1, writerow(TsvHeader[1], TsvHeader[2], TsvHeader[3]))

-----------------------------------------------------------------------------
(* Inputs of the direct calls and of the two pages.                        *)

TimeInputs == { k * 500 : k \in -8..8 }
                  \cup { 59999, 3599999, 3661500, 360000000, -3661500, -36000000 }

Formats == { "txt", "vtt", "srt", "tsv", "json" }

\* the multiselect: formats in the order the user picked them, none twice
FormatChoices ==
    { f \in SeqsUpTo(Formats, MaxFormats) :
        \A a, b \in 1..Len(f) : a # b => f[a] # f[b] }

Tasks == { "transcribe", "translate" }

Seg(s, e, x) == [start |-> s, end |-> e, text |-> x]

\* what model.transcribe may hand back: a dict with the full text and the segments
EngineResults ==
    { [text |-> <<>>, segments |-> <<>>],
      [text |-> Hello \o <<" ">> \o world,
       segments |-> << Seg(0, 2500, Hello), Seg(2500, 5000, world) >>],
      [text |-> Hello, segments |-> << Seg(0, 2500, Hello), [end |-> 5000, text |-> Hello] >>] }

AudioFormats == { "mp3", "wav", "aac", "ogg" }

Settings ==
    [ hardware_accel : { "None", "NVIDIA NVENC", "AMD AMF", "Intel QSV" },
      thread_count : { "0" },            \* as str(settings['thread_count']) gives it
      encoding_preset : { "medium" },
      audio_bitrate : { "Default", "128k" },
      sample_rate : { "Default", "44100" } ]

NoRequest == [page |-> "none"]

-----------------------------------------------------------------------------
Init ==
    /\ pc = "idle"
    /\ arg = <<>>
    /\ ret = NotCalled
    /\ fs = {}
    /\ request = NoRequest
    /\ command = <<>>
    /\ toolCalls = 0
    /\ toolFailed = FALSE
    /\ progress = 0
    /\ result = NotCalled
    /\ exc = NoExc
    /\ fmtIdx = 0
    /\ errors = <<>>
    /\ downloads = <<>>

pageVars == <<fs, request, command, toolCalls, toolFailed, progress, result, exc,
              fmtIdx, errors, downloads>>

-----------------------------------------------------------------------------
(* Direct calls of the formatter and of the serializers.                   *)

Call_format_time ==
    /\ pc = "idle"
    /\ \E t \in TimeInputs :
          /\ arg' = t
          /\ ret' = Return(format_time(t))
    /\ pc' = "format_time"
    /\ UNCHANGED pageVars

Call_create_srt_content ==
    /\ pc = "idle"
    /\ \E segments \in SegmentLists :
          /\ arg' = segments
          /\ ret' = create_srt_content(segments)
    /\ pc' = "create_srt_content"
    /\ UNCHANGED pageVars

Call_create_vtt_content ==
    /\ pc = "idle"
    /\ \E segments \in SegmentLists :
          /\ arg' = segments
          /\ ret' = create_vtt_content(segments)
    /\ pc' = "create_vtt_content"
    /\ UNCHANGED pageVars

Call_create_tsv_content ==
    /\ pc = "idle"
    /\ \E segments \in SegmentLists :
          /\ arg' = segments
          /\ ret' = create_tsv_content(segments)
    /\ pc' = "create_tsv_content"
    /\ UNCHANGED pageVars

-----------------------------------------------------------------------------
(* The Transcribe page: the click handler of "Start Transcription",        *)
(* Transcribe.py 134-187, and transcribe_audio, Transcribe.py 48-78.       *)

TmpAudio == "tmp_file"

ClickTranscribe ==
    /\ pc = "idle"
    /\ \E f \in FormatChoices, t \in Tasks :
          request' = [page |-> "transcribe", output_format |-> f, task |-> t]
    /\ pc' = "load_model"
    /\ UNCHANGED <<arg, ret, fs, command, toolCalls, toolFailed, progress, result,
                   exc, fmtIdx, errors, downloads>>

\* whisper.load_model(model_name), line 50: before any file exists
LoadModel ==
    /\ pc = "load_model"
    /\ \/ /\ pc' = "t_create"
          /\ exc' = exc
       \/ /\ exc' = Raise("RuntimeError", "load_model")
          /\ pc' = "transcribe_audio_raised"
    /\ UNCHANGED <<arg, ret, fs, request, command, toolCalls, toolFailed, progress,
                   result, fmtIdx, errors, downloads>>

\* tempfile.NamedTemporaryFile(delete=False, ...), line 53
CreateTmpAudio ==
    /\ pc = "t_create"
    /\ \/ /\ fs' = fs \cup {TmpAudio}
          /\ pc' = "t_write"
          /\ exc' = exc
       \/ /\ exc' = Raise("OSError", "NamedTemporaryFile")
          /\ pc' = "transcribe_audio_raised"
          /\ fs' = fs
    /\ UNCHANGED <<arg, ret, request, command, toolCalls, toolFailed, progress,
                   result, fmtIdx, errors, downloads>>

\* tmp_file.write(audio_file.getvalue()), lines 54-55, inside the with block and
\* before the try: when it raises, the with block closes the file, which
\* delete=False keeps on disk, and the finally of line 76 is never entered
WriteTmpAudio ==
    /\ pc = "t_write"
    /\ \/ /\ pc' = "t_progress"
          /\ exc' = exc
       \/ /\ exc' = Raise("OSError", "write")
          /\ pc' = "transcribe_audio_raised"
    /\ UNCHANGED <<arg, ret, fs, request, command, toolCalls, toolFailed, progress,
                   result, fmtIdx, errors, downloads>>

\* the simulated progress, lines 62-64: the last call is progress(99/100)
SimulateProgress ==
    /\ pc = "t_progress"
    /\ progress' = 99
    /\ pc' = "t_transcribe"
    /\ UNCHANGED <<arg, ret, fs, request, command, toolCalls, toolFailed, result,
                   exc, fmtIdx, errors, downloads>>

\* faulty variant: model.transcribe called again after a failure
Transcribe_retrying ==
    /\ pc = "t_transcribe"
    /\ toolCalls' = toolCalls + 1
    /\ \/ /\ \E r \in EngineResults : result' = Return(r)
          /\ progress' = 100
          /\ pc' = "t_finally"
          /\ UNCHANGED <<exc, toolFailed>>
       \/ /\ toolFailed' = TRUE
          /\ pc' = IF toolCalls < 2 THEN "t_transcribe" ELSE "t_finally"
          /\ exc' = IF toolCalls < 2 THEN exc ELSE Raise("RuntimeError", "transcribe")
          /\ UNCHANGED <<result, progress>>
    /\ UNCHANGED <<arg, ret, fs, request, command, fmtIdx, errors, downloads>>

\* model.transcribe(...), lines 67-72: either branch of the task runs it once
Transcribe ==
    /\ pc = "t_transcribe"
    /\ toolCalls' = toolCalls + 1
    /\ \/ /\ \E r \in EngineResults : result' = Return(r)
          /\ progress' = 100
          /\ pc' = "t_finally"
          /\ UNCHANGED <<exc, toolFailed>>
       \/ /\ toolFailed' = TRUE
          /\ exc' = Raise("RuntimeError", "transcribe")
          /\ pc' = "t_finally"
          /\ UNCHANGED <<result, progress>>
    /\ UNCHANGED <<arg, ret, fs, request, command, fmtIdx, errors, downloads>>

\* finally: os.unlink(tmp_file_path), lines 76-78, then the return of line 74
\* or the exception goes on
TranscribeFinally ==
    /\ pc = "t_finally"
    /\ fs' = fs \ {TmpAudio}
    /\ pc' = IF exc = NoExc THEN "transcribe_audio_returned"
             ELSE "transcribe_audio_raised"
    /\ UNCHANGED <<arg, ret, request, command, toolCalls, toolFailed, progress,
                   result, exc, fmtIdx, errors, downloads>>

\* except Exception as e: st.error(...), lines 186-187
PageExcept ==
    /\ pc = "transcribe_audio_raised"
    /\ errors' = Append(errors, [by |-> "st.error", exc |-> exc])
    /\ exc' = NoExc
    /\ pc' = "done"
    /\ UNCHANGED <<arg, ret, fs, request, command, toolCalls, toolFailed, progress,
                   result, fmtIdx, downloads>>

\* lines 145-153: st.success, the tabs and the preview of result["text"]
PagePreview ==
    /\ pc = "transcribe_audio_returned"
    /\ fmtIdx' = 1
    /\ pc' = "formats"
    /\ UNCHANGED <<arg, ret, fs, request, command, toolCalls, toolFailed, progress,
                   result, exc, errors, downloads>>

MimeType(format_type) ==
    CASE format_type = "txt" -> "text/plain"
      [] format_type = "json" -> "application/json"
      [] format_type = "srt" -> "text/srt"
      [] format_type = "vtt" -> "text/vtt"
      [] format_type = "tsv" -> "text/tab-separated-values"

\* the dispatch on format_type, lines 158-172.  json.dumps(result, indent=2)
\* is kept as the result it encodes.
Content(format_type, res) ==
    CASE format_type = "txt" -> Return(res.text)
      [] format_type = "json" -> Return([json |-> res])
      [] format_type = "srt" -> create_srt_content(res.segments)
      [] format_type = "vtt" -> create_vtt_content(res.segments)
      [] format_type = "tsv" -> create_tsv_content(res.segments)

\* one iteration of the loop over output_format, lines 156-184: the content,
\* its text area and its download button; an exception leaves the loop for
\* the except of line 186
PageFormat ==
    /\ pc = "formats"
    /\ fmtIdx <= Len(request.output_format)
    /\ LET format_type == request.output_format[fmtIdx]
           content == Content(format_type, result.value)
       IN  \/ /\ content.kind = "return"
              /\ downloads' = Append(downloads,
                     [format |-> format_type, data |-> content.value,
                      mime |-> MimeType(format_type)])
              /\ fmtIdx' = fmtIdx + 1
              /\ UNCHANGED <<pc, errors>>
           \/ /\ content.kind = "raise"
              /\ errors' = Append(errors, [by |-> "st.error", exc |-> content])
              /\ pc' = "done"
              /\ UNCHANGED <<fmtIdx, downloads>>
    /\ UNCHANGED <<arg, ret, fs, request, command, toolCalls, toolFailed, progress,
                   result, exc>>

PageFormatsDone ==
    /\ pc = "formats"
    /\ fmtIdx > Len(request.output_format)
    /\ pc' = "done"
    /\ UNCHANGED <<arg, ret, fs, request, command, toolCalls, toolFailed, progress,
                   result, exc, fmtIdx, errors, downloads>>

-----------------------------------------------------------------------------
(* The Extract page: the click handler of "Extract Audio", Extract.py      *)
(* 84-101, and extract_audio, Extract.py 9-48.                             *)

TempVideo == "temp_video"
AudioFile == "audio_file"

ClickExtract ==
    /\ pc = "idle"
    /\ \E f \in AudioFormats, st \in Settings :
          request' = [page |-> "extract", audio_format |-> f, settings |-> st]
    /\ pc' = "e_create"
    /\ UNCHANGED <<arg, ret, fs, command, toolCalls, toolFailed, progress, result,
                   exc, fmtIdx, errors, downloads>>

\* tempfile.NamedTemporaryFile(delete=False, suffix=".mp4"), line 10
CreateTempVideo ==
    /\ pc = "e_create"
    /\ \/ /\ fs' = fs \cup {TempVideo}
          /\ pc' = "e_write"
          /\ exc' = exc
       \/ /\ exc' = Raise("OSError", "NamedTemporaryFile")
          /\ pc' = "extract_audio_raised"
          /\ fs' = fs
    /\ UNCHANGED <<arg, ret, request, command, toolCalls, toolFailed, progress,
                   result, fmtIdx, errors, downloads>>

\* temp_video.write(video_file.read()), lines 11-12: as in transcribe_audio,
\* outside the try, and the file stays when it raises
WriteTempVideo ==
    /\ pc = "e_write"
    /\ \/ /\ pc' = "e_command"
          /\ exc' = exc
       \/ /\ exc' = Raise("OSError", "write")
          /\ pc' = "extract_audio_raised"
    /\ UNCHANGED <<arg, ret, fs, request, command, toolCalls, toolFailed, progress,
                   result, fmtIdx, errors, downloads>>

HardwareCodec(hardware_accel) ==
    CASE hardware_accel = "NVIDIA NVENC" -> <<"-c:a", "h264_nvenc">>
      [] hardware_accel = "AMD AMF" -> <<"-c:a", "h264_amf">>
      [] hardware_accel = "Intel QSV" -> <<"-c:a", "h264_qsv">>
      [] OTHER -> <<>>

\* the command list, lines 14-35
BuildCommand(settings, output_format) ==
    <<"ffmpeg", "-i", TempVideo, "-vn">>
        \o HardwareCodec(settings.hardware_accel)
        \o <<"-threads", settings.thread_count>>
        \o <<"-preset", settings.encoding_preset>>
        \o (IF settings.audio_bitrate # "Default"
            THEN <<"-b:a", settings.audio_bitrate>> ELSE <<>>)
        \o (IF settings.sample_rate # "Default"
            THEN <<"-ar", settings.sample_rate>> ELSE <<>>)
        \o <<"-acodec", output_format, AudioFile>>

MakeCommand ==
    /\ pc = "e_command"
    /\ command' = BuildCommand(request.settings, request.audio_format)
    /\ pc' = "e_run"
    /\ UNCHANGED <<arg, ret, fs, request, toolCalls, toolFailed, progress, result,
                   exc, fmtIdx, errors, downloads>>

\* subprocess.run(command, check=True, ...), line 38, with the handler of
\* lines 42-44: the encoder exits 0 and has written the output file; or it
\* exits non-zero (CalledProcessError: st.error and return None), having
\* written part of the output or nothing; or it cannot be started at all
\* (FileNotFoundError, which no except clause of extract_audio catches)
RunEncoder ==
    /\ pc = "e_run"
    /\ toolCalls' = toolCalls + 1
    /\ \/ /\ fs' = fs \cup {AudioFile}
          /\ pc' = "e_read"
          /\ UNCHANGED <<toolFailed, errors, result, exc>>
       \/ /\ toolFailed' = TRUE
          /\ \E partial \in BOOLEAN :
                fs' = IF partial THEN fs \cup {AudioFile} ELSE fs
          /\ errors' = Append(errors,
                 [by |-> "st.error", exc |-> Raise("CalledProcessError", "stderr")])
          /\ result' = Return("None")
          /\ pc' = "e_finally"
          /\ exc' = exc
       \/ /\ toolFailed' = TRUE
          /\ exc' = Raise("FileNotFoundError", "ffmpeg")
          /\ pc' = "e_finally"
          /\ UNCHANGED <<fs, errors, result>>
    /\ UNCHANGED <<arg, ret, request, command, progress, fmtIdx, downloads>>

\* open(audio_file, "rb") and f.read(), lines 39-41
ReadAudio ==
    /\ pc = "e_read"
    /\ \/ /\ \E data \in { "bytes", "empty" } : result' = Return(data)
          /\ exc' = exc
       \/ /\ exc' = Raise("OSError", "open")
          /\ result' = result
    /\ pc' = "e_finally"
    /\ UNCHANGED <<arg, ret, fs, request, command, toolCalls, toolFailed, progress,
                   fmtIdx, errors, downloads>>

\* finally: both files are unlinked, lines 45-48
ExtractFinally ==
    /\ pc = "e_finally"
    /\ fs' = (fs \ {TempVideo}) \ {AudioFile}
    /\ pc' = IF exc = NoExc THEN "extract_audio_returned" ELSE "extract_audio_raised"
    /\ UNCHANGED <<arg, ret, request, command, toolCalls, toolFailed, progress,
                   result, exc, fmtIdx, errors, downloads>>

\* the caller, lines 91-101: `if audio_data:` is false for None and for b""
ExtractReturned ==
    /\ pc = "extract_audio_returned"
    /\ IF result.value = "bytes"
       THEN /\ downloads' = Append(downloads,
                   [format |-> request.audio_format, data |-> result.value,
                    mime |-> <<"audio/", request.audio_format>>])
            /\ errors' = errors
       ELSE /\ errors' = Append(errors,
                   [by |-> "st.error", exc |-> Raise("message", "Failed to extract audio")])
            /\ downloads' = downloads
    /\ pc' = "done"
    /\ UNCHANGED <<arg, ret, fs, request, command, toolCalls, toolFailed, progress,
                   result, exc, fmtIdx>>

\* nothing in Extract.py catches the exception: the script run ends and
\* Streamlit shows the exception in the page
ExtractRaised ==
    /\ pc = "extract_audio_raised"
    /\ errors' = Append(errors, [by |-> "streamlit", exc |-> exc])
    /\ exc' = NoExc
    /\ pc' = "done"
    /\ UNCHANGED <<arg, ret, fs, request, command, toolCalls, toolFailed, progress,
                   result, fmtIdx, downloads>>

-----------------------------------------------------------------------------
Next ==
    \/ Call_format_time
    \/ Call_create_srt_content
    \/ Call_create_vtt_content
    \/ Call_create_tsv_content
    \/ ClickTranscribe
    \/ LoadModel
    \/ CreateTmpAudio
    \/ WriteTmpAudio
    \/ SimulateProgress
    \/ Transcribe
    \/ TranscribeFinally
    \/ PageExcept
    \/ PagePreview
    \/ PageFormat
    \/ PageFormatsDone
    \/ ClickExtract
    \/ CreateTempVideo
    \/ WriteTempVideo
    \/ MakeCommand
    \/ RunEncoder
    \/ ReadAudio
    \/ ExtractFinally
    \/ ExtractReturned
    \/ ExtractRaised

Spec == Init /\ [][Next]_vars

-----------------------------------------------------------------------------
(* Reading an output back: lines, fields and cues.                         *)

FirstIndex(s, c) == CHOOSE k \in 1..Len(s) : s[k] = c /\ \A j \in 1..(k - 1) : s[j] # c

RECURSIVE SplitOn(_, _)
\* s.split(c): the pieces between the occurrences of c, empty pieces kept
SplitOn(s, c) ==
    IF ~Has(s, c) THEN <<s>>
    ELSE LET k == FirstIndex(s, c)
         IN  <<SubSeq(s, 1, k - 1)>> \o SplitOn(SubSeq(s, k + 1, Len(s)), c)

RECURSIVE SplitLines(_)
\* s.splitlines(): a line ends at "\r\n", "\n" or "\r"; no empty last line
SplitLines(s) ==
    IF s = <<>> THEN <<>>
    ELSE IF ~Has(s, CR) /\ ~Has(s, LF) THEN <<s>>
    ELSE LET k == CHOOSE j \in 1..Len(s) :
                      /\ s[j] \in {CR, LF}
                      /\ \A h \in 1..(j - 1) : s[h] \notin {CR, LF}
             skip == IF s[k] = CR /\ k < Len(s) /\ s[k + 1] = LF THEN 2 ELSE 1
         IN  <<SubSeq(s, 1, k - 1)>> \o SplitLines(SubSeq(s, k + skip, Len(s)))

RECURSIVE Join(_, _)
Join(pieces, c) ==
    IF pieces = <<>> THEN <<>>
    ELSE IF Len(pieces) = 1 THEN pieces[1]
    ELSE pieces[1] \o <<c>> \o Join(Tail(pieces), c)

ContainsArrow(line) ==
    \E k \in 1..Len(line) : k + 4 <= Len(line) /\ SubSeq(line, k, k + 4) = ARROW

\* the positions, in document order, of the timing lines of a subtitle file
TimingLines(lines) ==
    SelectSeq([k \in 1..Len(lines) |-> k], LAMBDA k : ContainsArrow(lines[k]))

\* the text of the k-th cue: the lines after its timing line, up to the blank
\* line that closes the cue.  lead is the number of lines a cue holds before
\* its timing line (1 in SRT, the index; 0 in VTT).
CueText(lines, at, k, lead) ==
    LET next == IF k < Len(at) THEN at[k + 1] - lead ELSE Len(lines)
    IN  Join(SubSeq(lines, at[k] + 1, next - 2), LF)

CueClosedByBlank(lines, at, k, lead) ==
    LET next == IF k < Len(at) THEN at[k + 1] - lead ELSE Len(lines)
    IN  next - 1 > at[k] /\ lines[next - 1] = <<>>

-----------------------------------------------------------------------------
(* C1: every temporary file made by extract_audio or transcribe_audio is   *)
(* gone when the call returns or raises, on every exit path, a failed      *)
(* write of the uploaded bytes included.                                   *)
C1_NoTempFileLeft ==
    pc \in { "transcribe_audio_returned", "transcribe_audio_raised",
             "extract_audio_returned", "extract_audio_raised" }
        => fs = {}

-----------------------------------------------------------------------------
(* C2: the SRT output of a segment list S holds exactly Len(S) cue blocks, *)
(* and the index line of the k-th block in document order is k, whatever   *)
(* the start and end values and the gaps between them; each block is its   *)
(* index line, its timing line, its text and a closing blank line.         *)
C2_SrtSequentialIndex ==
    (pc = "create_srt_content" /\ ret.kind = "return") =>
        LET lines == SplitOn(ret.value, LF)
            at == TimingLines(lines)
        IN  /\ Len(at) = Len(arg)
            /\ \A k \in 1..Len(at) :
                  /\ at[k] > 1
                  /\ lines[at[k] - 1] = Dec(k)
                  /\ CueText(lines, at, k, 1) = arg[k].text
                  /\ CueClosedByBlank(lines, at, k, 1)
            /\ (Len(at) > 0 => at[1] = 2)

\* two cues with a gap of more than an hour between them
C2_Witness ==
    /\ pc = "create_srt_content"
    /\ ret.kind = "return"
    /\ Len(arg) = 2
    /\ arg[1].end = 2500
    /\ arg[2].start = 3661500

-----------------------------------------------------------------------------
(* C3: the timing line of every cue, in SRT and in VTT, carries the true   *)
(* milliseconds of start and end: a time of t ms is HH:MM:SS of t div 1000 *)
(* followed by the separator and t mod 1000 in three digits, so that 2.5 s *)
(* gives 00:00:02,500 and 3661.5 s gives 01:01:01,500.                     *)
Fmt03d(n) ==
    IF n < 10 THEN <<"0", "0">> \o Dec(n)
    ELSE IF n < 100 THEN <<"0">> \o Dec(n)
    ELSE Dec(n)

formatWithMillis(t, sep) ==
    LET s == t \div 1000
    IN  Fmt02d(s \div 3600) \o <<":">> \o Fmt02d((s \div 60) % 60) \o <<":">>
            \o Fmt02d(s % 60) \o <<sep>> \o Fmt03d(t % 1000)

C3_TrueMilliseconds ==
    (pc \in { "create_srt_content", "create_vtt_content" } /\ ret.kind = "return") =>
        LET lines == SplitOn(ret.value, LF)
            at == TimingLines(lines)
            sep == IF pc = "create_srt_content" THEN "," ELSE "."
        IN  \A k \in 1..Len(at) :
               k <= Len(arg) =>
                  lines[at[k]] = formatWithMillis(arg[k].start, sep) \o ARROW
                                     \o formatWithMillis(arg[k].end, sep)

-----------------------------------------------------------------------------
(* C4: TSV round trip.  The rows of a TSV output, each split into fields   *)
(* on tab and the header row dropped, are the triples (format_time(start), *)
(* format_time(end), text) of the segments, in order, text unchanged.      *)

Triples(segments) ==
    [k \in 1..Len(segments) |->
        <<format_time(segments[k].start), format_time(segments[k].end),
          segments[k].text>>]

FieldsOf(rows) == [k \in 1..Len(rows) |-> SplitOn(rows[k], TAB)]

NoTabNoNewline(segments) ==
    \A k \in 1..Len(segments) :
        /\ ~Has(segments[k].text, TAB)
        /\ ~Has(segments[k].text, LF)
        /\ ~Has(segments[k].text, CR)

\* C4 as claimed, for every text free of tab and newline, the rows taken at
\* any line end ("\n", "\r\n" or "\r", none of them left in a row)
C4_TsvRoundTripAsClaimed ==
    (pc = "create_tsv_content" /\ ret.kind = "return" /\ NoTabNoNewline(arg)) =>
        Tail(FieldsOf(SplitLines(ret.value))) = Triples(arg)

\* C4 as amended: the text holds no tab, no newline, no carriage return and
\* no double quote; every row, the last one too, ends with "\r\n", so that
\* splitting on "\n" leaves a "\r" at the end of every row and an empty last
\* piece; the rows without their "\r", split on tab, are the header and the
\* triples of the segments
C4_TsvRoundTrip ==
    (pc = "create_tsv_content" /\ ret.kind = "return" /\ NoTabNoNewline(arg)
        /\ \A k \in 1..Len(arg) : ~Has(arg[k].text, QUOTE)) =>
        LET pieces == SplitOn(ret.value, LF)
            n == Len(pieces) - 1
            rows == [k \in 1..n |-> SubSeq(pieces[k], 1, Len(pieces[k]) - 1)]
        IN  /\ n = Len(arg) + 1
            /\ pieces[n + 1] = <<>>
            /\ \A k \in 1..n : pieces[k] # <<>> /\ pieces[k][Len(pieces[k])] = CR
            /\ FieldsOf(rows)[1] = TsvHeader
            /\ Tail(FieldsOf(rows)) = Triples(arg)

C4_Witness ==
    /\ pc = "create_tsv_content"
    /\ ret.kind = "return"
    /\ Len(arg) = 2
    /\ arg[1].text = Hello
    /\ arg[2].text = world

-----------------------------------------------------------------------------
(* C5: a segment without start (or end) makes the SRT, VTT or TSV          *)
(* serializer fail with an error that names the missing field; nothing is  *)
(* put in its place and no content for the segments before it comes back.  *)

PerSegmentCalls == { "create_srt_content", "create_vtt_content", "create_tsv_content" }

LacksTime(segment) == "start" \notin DOMAIN segment \/ "end" \notin DOMAIN segment

FirstLacking(segments) ==
    CHOOSE k \in 1..Len(segments) :
        LacksTime(segments[k]) /\ \A j \in 1..(k - 1) : ~LacksTime(segments[j])

\* C5 as claimed: the error is a MalformedResult
C5_MalformedResultAsClaimed ==
    (pc \in PerSegmentCalls /\ \E k \in 1..Len(arg) : LacksTime(arg[k])) =>
        /\ ret.kind = "raise"
        /\ ret.exc = "MalformedResult"
        /\ ret.arg \in { "start", "end" } \ DOMAIN arg[FirstLacking(arg)]

\* C5 as amended: the error is Python's KeyError, whose argument is the
\* missing key: start when start is missing, else end.  On the page, a
\* result with such a segment ends the loop over the formats at the first
\* per-segment format, with the KeyError shown by st.error and no download
\* offered for that format.
C5_KeyErrorNamesField ==
    /\ (pc \in PerSegmentCalls /\ \E k \in 1..Len(arg) : LacksTime(arg[k])) =>
          /\ ret.kind = "raise"
          /\ ret.exc = "KeyError"
          /\ ret.arg = (IF "start" \notin DOMAIN arg[FirstLacking(arg)]
                        THEN "start" ELSE "end")
    /\ (/\ pc = "done"
        /\ request.page = "transcribe"
        /\ result.kind = "return"
        /\ \E k \in 1..Len(result.value.segments) : LacksTime(result.value.segments[k])
        /\ \E j \in 1..Len(request.output_format) :
              request.output_format[j] \in { "srt", "vtt", "tsv" }) =>
          /\ Len(errors) = 1
          /\ errors[1].exc.kind = "raise"
          /\ errors[1].exc.exc = "KeyError"
          /\ errors[1].exc.arg \in { "start", "end" }
          /\ \A d \in 1..Len(downloads) :
                downloads[d].format \notin { "srt", "vtt", "tsv" }

\* a well-formed segment first, then one without start and without end
C5_Witness ==
    /\ pc = "create_srt_content"
    /\ Len(arg) = 2
    /\ ~LacksTime(arg[1])
    /\ DOMAIN arg[2] = { "text" }
    /\ ret.kind = "raise"

-----------------------------------------------------------------------------
(* C6: format_time rejects every negative argument with an                 *)
(* InvalidTimestamp error; it returns no timecode for it.                  *)
C6_NegativeRejected ==
    (pc = "format_time" /\ arg < 0) =>
        /\ ret.kind = "raise"
        /\ ret.exc = "InvalidTimestamp"

-----------------------------------------------------------------------------
(* C7: whatever the text holds, tabs and newlines included, the TSV output *)
(* is a grid: Len(S) + 1 rows, each of exactly 3 fields.                   *)
C7_TsvGridIntact ==
    (pc = "create_tsv_content" /\ ret.kind = "return") =>
        LET rows == SplitLines(ret.value)
        IN  /\ Len(rows) = Len(arg) + 1
            /\ \A k \in 1..Len(rows) : Len(SplitOn(rows[k], TAB)) = 3

-----------------------------------------------------------------------------
(* C8: with no segments no serializer fails: SRT returns the empty string, *)
(* VTT the WEBVTT header and its blank line, TSV the header row            *)
(* Start<TAB>End<TAB>Text, closed by the writer's row terminator.          *)
C8_EmptySegments ==
    (pc \in PerSegmentCalls /\ arg = <<>>) =>
        ret = Return(CASE pc = "create_srt_content" -> <<>>
                       [] pc = "create_vtt_content" ->
                            <<"W", "E", "B", "V", "T", "T", "\n", "\n">>
                       [] pc = "create_tsv_content" ->
                            <<"S", "t", "a", "r", "t", "\t", "E", "n", "d", "\t",
                              "T", "e", "x", "t", "\r", "\n">>)

C8_Witness ==
    /\ pc = "create_tsv_content"
    /\ arg = <<>>
    /\ ret.kind = "return"

-----------------------------------------------------------------------------
(* C9: the VTT output of a segment list S starts with "WEBVTT\n\n" and     *)
(* goes on with exactly Len(S) cue blocks in the order of S, each a timing *)
(* line, the text and a blank line, with no cue index line before the      *)
(* timing line.                                                            *)
C9_VttStructure ==
    (pc = "create_vtt_content" /\ ret.kind = "return") =>
        LET lines == SplitOn(ret.value, LF)
            at == TimingLines(lines)
        IN  /\ Len(ret.value) >= 8
            /\ SubSeq(ret.value, 1, 8) = <<"W", "E", "B", "V", "T", "T", "\n", "\n">>
            /\ Len(at) = Len(arg)
            /\ (Len(at) > 0 => at[1] = 3)
            /\ \A k \in 1..Len(at) :
                  /\ lines[at[k] - 1] = <<>>
                  /\ lines[at[k]] = format_time(arg[k].start) \o VttMillis \o ARROW
                                        \o format_time(arg[k].end) \o VttMillis
                  /\ CueText(lines, at, k, 0) = arg[k].text
                  /\ CueClosedByBlank(lines, at, k, 0)

C9_Witness ==
    /\ pc = "create_vtt_content"
    /\ ret.kind = "return"
    /\ Len(arg) = 2
    /\ arg[1].text # arg[2].text
    /\ arg[1].start # arg[2].start

-----------------------------------------------------------------------------
(* C10: within one request the external tool (the encoder, the recognition *)
(* engine) runs at most once, and when that run fails the request ends     *)
(* with the error shown to the user and no download offered.               *)
C10_NoRetryNoPartialOutput ==
    /\ toolCalls <= 1
    /\ toolFailed => downloads = <<>>
    /\ (pc = "done" /\ toolFailed) =>
          /\ toolCalls = 1
          /\ errors # <<>>
          /\ errors[1].exc.kind = "raise"

C10_Witness ==
    /\ pc = "done"
    /\ toolFailed
    /\ request.page = "transcribe"
    /\ Len(request.output_format) = 2

====
